---- MODULE Spec2Model ----
(***************************************************************************)
(* FreshBasket (src/app.py): the relational store, the browser-held        *)
(* session cookie and the request handlers of the accounts, the cart       *)
(* manager, the order workflow and the administration of products, orders  *)
(* and user roles.                                                         *)
(*                                                                         *)
(* Currency amounts (db.Float columns) are modelled as whole numbers of    *)
(* the smallest currency unit; floating-point rounding is not modelled.    *)
(* Primary keys follow the default store (DB_TYPE = sqlite, app.py:26):    *)
(* an INTEGER PRIMARY KEY column gets max(id) + 1.                         *)
(***************************************************************************)
EXTENDS Integers, FiniteSets, Sequences, TLC

\* ---- bounds of the model ------------------------------------------------
NumBrowsers == 2
NumUsers == 2
NumWorkers == 2
MaxProducts == 2
MaxPrice == 2
MaxStock == 1
MaxCartId == 2
MaxCartQuantity == 2
MaxOrders == 1

Browsers == 1..NumBrowsers
Users == 1..NumUsers
Workers == 1..NumWorkers
ProductIds == 1..MaxProducts
CartItemIds == 1..MaxCartId
Prices == 1..MaxPrice
Stocks == 0..MaxStock
\* quantities a form can post: below the clamp, within stock, above stock
Quantities == 0..(MaxStock + 1)
Addresses == {"", "123 Main St"}

NoToken == 0
NoUser == 0
NoRow == [id |-> 0, session_id |-> 0, product_id |-> 0, quantity |-> 0]
NoOrder == [user_id |-> 0, total_amount |-> 0, status |-> "", shipping_address |-> "", items |-> {}]

VARIABLES
  users,       \* users table: id -> [is_admin]
  products,    \* products table: id -> [price, stock], the domain is the set of rows
  cartItems,   \* cart_items table: set of [id, session_id, product_id, quantity]
  orders,      \* orders table: set of [id, user_id, total_amount, status, shipping_address]
  orderItems,  \* order_items table: set of [id, order_id, product_id, quantity, price]
  session,     \* per browser, the signed cookie: [cart_session, user_id]
  req,         \* per worker, the request it is handling and the ORM session's loaded objects
  last         \* the response of the step most recently taken: route and outcome

vars == <<users, products, cartItems, orders, orderItems, session, req, last>>
tables == <<users, products, cartItems, orders, orderItems>>

\* ---- helpers ------------------------------------------------------------
Max(S) == CHOOSE x \in S : \A y \in S : y <= x
Min(S) == CHOOSE x \in S : \A y \in S : x <= y

\* the key the store assigns to a new row of a table
NewId(rows) == IF rows = {} THEN 1 ELSE Max({r.id : r \in rows}) + 1

\* OrderItem.get_subtotal (app.py:160-162), and CartItem.get_subtotal
\* (app.py:117-119) on a cart row joined with its product's price
get_subtotal(item) == item.price * item.quantity

RECURSIVE SumSubtotals(_)
\* Python's sum(item.get_subtotal() for item in items)
SumSubtotals(items) ==
  IF items = {} THEN 0
  ELSE LET i == CHOOSE x \in items : TRUE
       IN get_subtotal(i) + SumSubtotals(items \ {i})

Idle == [pc |-> "idle", browser |-> 0, token |-> NoToken, user_id |-> NoUser,
         product_id |-> 0, quantity |-> 0, cart_item |-> NoRow,
         cart_items |-> {}, order |-> NoOrder]

\* the response: the route that answered and the message it flashed
Log(op, outcome) == [op |-> op, outcome |-> outcome]

\* the number of requests in progress at the step pc
InFlight(pc) == Cardinality({v \in Workers : req[v].pc = pc})

\* ---- session identity (app.py:303-308) ----------------------------------
\* os.urandom(16).hex(): a value no other browser session draws
FreshToken(b) == b

\* the cookie after get_session_id()
get_session_id(b) ==
  IF session[b].cart_session = NoToken
    THEN [session EXCEPT ![b].cart_session = FreshToken(b)]
    ELSE session

\* ---- cart manager -------------------------------------------------------
\* mutant: the posted quantity is not clamped
ClampQuantity_none(q) == q

\* if quantity < 1: quantity = 1   (app.py:335-336, 374-375)
ClampQuantity(q) == IF q < 1 THEN 1 ELSE q

\* CartItem.query.filter_by(session_id=, product_id=).first()  (app.py:343-346)
FirstCartItem(token, pid) ==
  LET found == {c \in cartItems : c.session_id = token /\ c.product_id = pid}
  IN IF found = {} THEN NoRow ELSE CHOOSE c \in found : c.id = Min({x.id : x \in found})

\* CartItem.query.filter_by(session_id=).all()  (app.py:316, 415)
CartOf(token) == {c \in cartItems : c.session_id = token}

\* add_to_cart, lines 332-346: look the product up, validate, read the cart row
add_to_cart(w, b, pid, q) ==
  /\ req[w].pc = "idle"
  /\ UNCHANGED tables
  /\ IF pid \notin DOMAIN products
       THEN /\ last' = Log("add_to_cart", "NotFound")
            /\ UNCHANGED <<session, req>>
     ELSE IF ClampQuantity(q) > products[pid].stock
       THEN /\ last' = Log("add_to_cart", "InsufficientStock")
            /\ UNCHANGED <<session, req>>
     ELSE \* bounds: row ids stay within 1..MaxCartId, quantities within MaxCartQuantity
          /\ NewId(cartItems) + InFlight("add_commit") <= MaxCartId
          /\ FirstCartItem(get_session_id(b)[b].cart_session, pid).quantity
               + ClampQuantity(q) <= MaxCartQuantity
          /\ session' = get_session_id(b)
          /\ req' = [req EXCEPT ![w] = [Idle EXCEPT
                       !.pc = "add_commit", !.browser = b,
                       !.token = session'[b].cart_session,
                       !.product_id = pid, !.quantity = ClampQuantity(q),
                       !.cart_item = FirstCartItem(session'[b].cart_session, pid)]]
          /\ last' = Log("add_to_cart", "InProgress")

\* add_to_cart, lines 348-365: UPDATE the row read or INSERT a new one, commit
add_to_cart_commit(w) ==
  LET r == req[w] IN
  /\ r.pc = "add_commit"
  /\ req' = [req EXCEPT ![w] = Idle]
  /\ UNCHANGED <<users, products, orders, orderItems, session>>
  /\ IF r.cart_item # NoRow
       THEN IF \E c \in cartItems : c.id = r.cart_item.id
              THEN \* cart_item.quantity += quantity, on the value loaded
                   /\ cartItems' = {IF c.id = r.cart_item.id
                                      THEN [c EXCEPT !.quantity = r.cart_item.quantity + r.quantity]
                                      ELSE c : c \in cartItems}
                   /\ last' = Log("add_to_cart",
                                  IF r.product_id \in DOMAIN products THEN "Added" ELSE "Failed")
              ELSE \* the UPDATE matches no row: StaleDataError, rollback
                   /\ cartItems' = cartItems
                   /\ last' = Log("add_to_cart", "Failed")
     ELSE IF r.product_id \in DOMAIN products
       THEN /\ cartItems' = cartItems \cup
                 {[id |-> NewId(cartItems), session_id |-> r.token,
                   product_id |-> r.product_id, quantity |-> r.quantity]}
            /\ last' = Log("add_to_cart", "Added")
     ELSE \* the product row is gone: the INSERT is refused by a store that
          \* enforces the foreign key, and kept by one that does not; in both
          \* cases flash(product.name) raises and the request reports failure
          /\ \/ cartItems' = cartItems
             \/ cartItems' = cartItems \cup
                     {[id |-> NewId(cartItems), session_id |-> r.token,
                       product_id |-> r.product_id, quantity |-> r.quantity]}
          /\ last' = Log("add_to_cart", "Failed")

\* mutant: update_cart_item without the stock check of line 377
update_cart_item_unchecked(w, id, q) ==
  /\ req[w].pc = "idle"
  /\ UNCHANGED <<users, products, orders, orderItems, session, req>>
  /\ IF ~ \E c \in cartItems : c.id = id
       THEN /\ last' = Log("update_cart_item", "NotFound")
            /\ UNCHANGED cartItems
     ELSE LET item == CHOOSE c \in cartItems : c.id = id IN
          /\ cartItems' = (cartItems \ {item}) \cup
                            {[item EXCEPT !.quantity = ClampQuantity(q)]}
          /\ last' = Log("update_cart_item", "Updated")

\* update_cart_item (app.py:368-389)
update_cart_item(w, id, q) ==
  /\ req[w].pc = "idle"
  /\ UNCHANGED <<users, products, orders, orderItems, session, req>>
  /\ IF ~ \E c \in cartItems : c.id = id
       THEN /\ last' = Log("update_cart_item", "NotFound")
            /\ UNCHANGED cartItems
     ELSE LET item == CHOOSE c \in cartItems : c.id = id IN
          IF item.product_id \notin DOMAIN products
            THEN \* cart_item.product is None: the handler raises
                 /\ last' = Log("update_cart_item", "ServerError")
                 /\ UNCHANGED cartItems
          ELSE IF ClampQuantity(q) > products[item.product_id].stock
            THEN /\ last' = Log("update_cart_item", "InsufficientStock")
                 /\ UNCHANGED cartItems
          ELSE /\ cartItems' = (cartItems \ {item}) \cup
                                 {[item EXCEPT !.quantity = ClampQuantity(q)]}
               /\ last' = Log("update_cart_item", "Updated")

\* remove_from_cart (app.py:392-406)
remove_from_cart(w, id) ==
  /\ req[w].pc = "idle"
  /\ UNCHANGED <<users, products, orders, orderItems, session, req>>
  /\ IF ~ \E c \in cartItems : c.id = id
       THEN /\ last' = Log("remove_from_cart", "NotFound")
            /\ UNCHANGED cartItems
     ELSE LET item == CHOOSE c \in cartItems : c.id = id IN
          IF item.product_id \notin DOMAIN products
            THEN /\ last' = Log("remove_from_cart", "ServerError")
                 /\ UNCHANGED cartItems
          ELSE /\ cartItems' = cartItems \ {item}
               /\ last' = Log("remove_from_cart", "Removed")

\* ---- order workflow -----------------------------------------------------
\* Order.calculate_total (app.py:142-144)
calculate_total(o, items) == SumSubtotals({i \in items : i.order_id = o.id})

\* mutant: checkout without the empty-cart check of lines 417-419
checkout_no_empty_check(w, b, addr) ==
  /\ req[w].pc = "idle"
  /\ UNCHANGED tables
  /\ IF session[b].user_id = NoUser
       THEN /\ last' = Log("checkout", "Unauthenticated")
            /\ UNCHANGED <<session, req>>
     ELSE /\ session' = get_session_id(b)
          /\ IF addr = ""
               THEN /\ last' = Log("checkout", "ValidationError")
                    /\ UNCHANGED req
             ELSE /\ NewId(orders) + InFlight("checkout_loaded")
                       + InFlight("checkout_flushed") <= MaxOrders
                  /\ req' = [req EXCEPT ![w] = [Idle EXCEPT
                               !.pc = "checkout_loaded", !.browser = b,
                               !.token = session'[b].cart_session,
                               !.user_id = session[b].user_id,
                               !.cart_items = CartOf(session'[b].cart_session),
                               !.order = [NoOrder EXCEPT !.shipping_address = addr]]]
                  /\ last' = Log("checkout", "InProgress")

\* checkout (POST), lines 411-427: login_required, load the cart, validate
checkout(w, b, addr) ==
  /\ req[w].pc = "idle"
  /\ UNCHANGED tables
  /\ IF session[b].user_id = NoUser
       THEN /\ last' = Log("checkout", "Unauthenticated")
            /\ UNCHANGED <<session, req>>
     ELSE /\ session' = get_session_id(b)
          /\ IF CartOf(session'[b].cart_session) = {}
               THEN /\ last' = Log("checkout", "EmptyCart")
                    /\ UNCHANGED req
             ELSE IF addr = ""
               THEN /\ last' = Log("checkout", "ValidationError")
                    /\ UNCHANGED req
             ELSE /\ NewId(orders) + InFlight("checkout_loaded")
                       + InFlight("checkout_flushed") <= MaxOrders
                  /\ req' = [req EXCEPT ![w] = [Idle EXCEPT
                               !.pc = "checkout_loaded", !.browser = b,
                               !.token = session'[b].cart_session,
                               !.user_id = session[b].user_id,
                               !.cart_items = CartOf(session'[b].cart_session),
                               !.order = [NoOrder EXCEPT !.shipping_address = addr]]]
                  /\ last' = Log("checkout", "InProgress")

\* price=cart_item.product.price (app.py:444): the Product object the ORM
\* session loaded for line 431, not a second read of the store
ProductPrice(loaded, pid) == loaded[pid].price

\* the OrderItem built for one cart row (app.py:441-446)
BuildOrderItem(c, loaded) ==
  [cart_item_id |-> c.id, product_id |-> c.product_id,
   quantity |-> c.quantity, price |-> ProductPrice(loaded, c.product_id)]

\* mutant: the flush of line 449 is visible to the store at once (no
\* transaction around the order's rows)
checkout_flush_autocommit(w) ==
  LET r == req[w] IN
  /\ r.pc = "checkout_loaded"
  /\ UNCHANGED <<users, products, cartItems, orderItems, session>>
  /\ IF \E c \in r.cart_items : c.product_id \notin DOMAIN products
       THEN /\ req' = [req EXCEPT ![w] = Idle]
            /\ last' = Log("checkout", "Failed")
            /\ UNCHANGED orders
     ELSE LET lines == {[id |-> c.id, quantity |-> c.quantity,
                         price |-> products[c.product_id].price] : c \in r.cart_items}
          IN /\ req' = [req EXCEPT ![w].pc = "checkout_flushed",
                          ![w].order = [r.order EXCEPT
                             !.user_id = r.user_id,
                             !.total_amount = SumSubtotals(lines),
                             !.status = "pending",
                             !.items = {BuildOrderItem(c, products) : c \in r.cart_items}]]
             /\ orders' = orders \cup
                  {[id |-> NewId(orders), user_id |-> r.user_id,
                    total_amount |-> SumSubtotals(lines), status |-> "pending",
                    shipping_address |-> r.order.shipping_address]}
             /\ last' = Log("checkout", "InProgress")

\* checkout, lines 429-449: total, Order, OrderItems, flush into the open
\* transaction (nothing is visible to other requests before the commit)
checkout_flush(w) ==
  LET r == req[w] IN
  /\ r.pc = "checkout_loaded"
  /\ UNCHANGED <<tables, session>>
  /\ IF \E c \in r.cart_items : c.product_id \notin DOMAIN products
       THEN \* item.product is None: AttributeError, rollback
            /\ req' = [req EXCEPT ![w] = Idle]
            /\ last' = Log("checkout", "Failed")
     ELSE LET loaded == products
              lines == {[id |-> c.id, quantity |-> c.quantity,
                         price |-> loaded[c.product_id].price] : c \in r.cart_items}
          IN /\ req' = [req EXCEPT ![w].pc = "checkout_flushed",
                          ![w].order = [r.order EXCEPT
                             !.user_id = r.user_id,
                             !.total_amount = SumSubtotals(lines),
                             !.status = "pending",
                             !.items = {BuildOrderItem(c, loaded) : c \in r.cart_items}]]
             /\ last' = Log("checkout", "InProgress")

\* mutant: an order item's price is the product's price when the row is
\* written, not the price the request read for the total
OrderItemRows_live(oid, items) ==
  {[id |-> (NewId(orderItems) - 1) + Cardinality({x \in items : x.cart_item_id <= i.cart_item_id}),
    order_id |-> oid, product_id |-> i.product_id, quantity |-> i.quantity,
    price |-> IF i.product_id \in DOMAIN products
                THEN products[i.product_id].price ELSE i.price] : i \in items}

\* the order_items rows of a committed order: keys in the order of the
\* cart rows they come from
OrderItemRows(oid, items) ==
  {[id |-> (NewId(orderItems) - 1) + Cardinality({x \in items : x.cart_item_id <= i.cart_item_id}),
    order_id |-> oid, product_id |-> i.product_id,
    quantity |-> i.quantity, price |-> i.price] : i \in items}

\* mutant: the cart rows are not deleted
ClearCart_none(rows, loaded) == rows

\* for item in cart_items: db.session.delete(item)  (app.py:452-453)
ClearCart(rows, loaded) == {c \in rows : c.id \notin {x.id : x \in loaded}}

\* checkout, lines 452-462: delete the cart rows loaded, commit; or roll back
checkout_commit(w) ==
  LET r == req[w]
      oid == NewId(orders)
      gone == \E c \in r.cart_items :
                 \/ ~ \E x \in cartItems : x.id = c.id
                 \/ c.product_id \notin DOMAIN products
  IN
  /\ r.pc = "checkout_flushed"
  /\ req' = [req EXCEPT ![w] = Idle]
  /\ UNCHANGED <<users, products, session>>
  /\ \/ \* commit
        /\ orders' = orders \cup
             {[id |-> oid, user_id |-> r.order.user_id,
               total_amount |-> r.order.total_amount, status |-> r.order.status,
               shipping_address |-> r.order.shipping_address]}
        /\ orderItems' = orderItems \cup OrderItemRows(oid, r.order.items)
        /\ cartItems' = ClearCart(cartItems, r.cart_items)
        /\ last' = Log("checkout", "OrderPlaced")
     \/ \* a cart row or a product read by this request is gone: the DELETE
        \* matches no row (StaleDataError) or the store refuses the foreign
        \* key, depending on the ORM version and the store; rollback
        /\ gone
        /\ UNCHANGED <<orders, orderItems, cartItems>>
        /\ last' = Log("checkout", "RolledBack")

\* ---- access control (app.py:492-503, with login_required) ----------------
\* mutant: the gate without the is_admin test of lines 499-501
admin_required_login_only(b) ==
  IF session[b].user_id = NoUser THEN "Unauthenticated" ELSE "ok"

admin_required(b) ==
  IF session[b].user_id = NoUser THEN "Unauthenticated"
  ELSE IF ~ users[session[b].user_id].is_admin THEN "Forbidden"
  ELSE "ok"

\* ---- admin management ----------------------------------------------------
\* admin_add_product (POST, app.py:541-598)
admin_add_product(w, b, filled, price, stock) ==
  LET id == NewId({[id |-> p] : p \in DOMAIN products}) IN
  /\ req[w].pc = "idle"
  /\ UNCHANGED <<users, cartItems, orders, orderItems, session, req>>
  /\ IF admin_required(b) # "ok"
       THEN /\ last' = Log("admin_add_product", admin_required(b))
            /\ UNCHANGED products
     ELSE IF ~ filled
       THEN /\ last' = Log("admin_add_product", "ValidationError")
            /\ UNCHANGED products
     ELSE /\ id \in ProductIds
          /\ products' = [p \in DOMAIN products \cup {id} |->
                            IF p = id THEN [price |-> price, stock |-> stock]
                            ELSE products[p]]
          /\ last' = Log("admin_add_product", "ProductAdded")

\* mutant: an edit of the price reprices the product's order items
admin_edit_product_reprice(w, b, pid, price, stock) ==
  /\ req[w].pc = "idle"
  /\ UNCHANGED <<users, cartItems, orders, session, req>>
  /\ IF admin_required(b) # "ok"
       THEN /\ last' = Log("admin_edit_product", admin_required(b))
            /\ UNCHANGED <<products, orderItems>>
     ELSE IF pid \notin DOMAIN products
       THEN /\ last' = Log("admin_edit_product", "NotFound")
            /\ UNCHANGED <<products, orderItems>>
     ELSE /\ products' = [products EXCEPT ![pid] = [price |-> price, stock |-> stock]]
          /\ orderItems' = {IF i.product_id = pid THEN [i EXCEPT !.price = price] ELSE i
                              : i \in orderItems}
          /\ last' = Log("admin_edit_product", "ProductUpdated")

\* admin_edit_product (POST, app.py:601-650)
admin_edit_product(w, b, pid, price, stock) ==
  /\ req[w].pc = "idle"
  /\ UNCHANGED <<users, cartItems, orders, orderItems, session, req>>
  /\ IF admin_required(b) # "ok"
       THEN /\ last' = Log("admin_edit_product", admin_required(b))
            /\ UNCHANGED products
     ELSE IF pid \notin DOMAIN products
       THEN /\ last' = Log("admin_edit_product", "NotFound")
            /\ UNCHANGED products
     ELSE /\ products' = [products EXCEPT ![pid] = [price |-> price, stock |-> stock]]
          /\ last' = Log("admin_edit_product", "ProductUpdated")

\* admin_delete_product (app.py:653-669): db.session.delete(product) cascades
\* to Product.cart_items and Product.order_items (app.py:100-101)
admin_delete_product(w, b, pid) ==
  /\ req[w].pc = "idle"
  /\ UNCHANGED <<users, orders, session, req>>
  /\ IF admin_required(b) # "ok"
       THEN /\ last' = Log("admin_delete_product", admin_required(b))
            /\ UNCHANGED <<products, cartItems, orderItems>>
     ELSE IF pid \notin DOMAIN products
       THEN /\ last' = Log("admin_delete_product", "NotFound")
            /\ UNCHANGED <<products, cartItems, orderItems>>
     ELSE /\ products' = [p \in DOMAIN products \ {pid} |-> products[p]]
          /\ cartItems' = {c \in cartItems : c.product_id # pid}
          /\ orderItems' = {i \in orderItems : i.product_id # pid}
          /\ last' = Log("admin_delete_product", "ProductDeleted")

\* ---- accounts (app.py:232-257) --------------------------------------------
\* login (POST): login_user(user) when the credentials match; login_user
\* writes the user id into the cookie and leaves its other keys alone
login(w, b, u, password_ok) ==
  /\ req[w].pc = "idle"
  /\ UNCHANGED <<tables, req>>
  /\ IF u \in DOMAIN users /\ password_ok
       THEN /\ session' = [session EXCEPT ![b].user_id = u]
            /\ last' = Log("login", "LoggedIn")
     ELSE /\ last' = Log("login", "InvalidCredentials")
          /\ UNCHANGED session

\* mutant: logout drops the whole cookie
logout_clear(w, b) ==
  /\ req[w].pc = "idle"
  /\ UNCHANGED <<tables, req>>
  /\ IF session[b].user_id = NoUser
       THEN /\ last' = Log("logout", "Unauthenticated")
            /\ UNCHANGED session
     ELSE /\ session' = [session EXCEPT ![b] = [cart_session |-> NoToken, user_id |-> NoUser]]
          /\ last' = Log("logout", "LoggedOut")

\* logout: login_required, then logout_user() removes the user id from the
\* cookie
logout(w, b) ==
  /\ req[w].pc = "idle"
  /\ UNCHANGED <<tables, req>>
  /\ IF session[b].user_id = NoUser
       THEN /\ last' = Log("logout", "Unauthenticated")
            /\ UNCHANGED session
     ELSE /\ session' = [session EXCEPT ![b].user_id = NoUser]
          /\ last' = Log("logout", "LoggedOut")

\* view_cart (app.py:311-326): reads the cart of get_session_id()
view_cart(w, b) ==
  /\ req[w].pc = "idle"
  /\ UNCHANGED <<tables, req>>
  /\ session' = get_session_id(b)
  /\ last' = Log("view_cart", "Cart")

\* ---- reading an order back (app.py:468-479) --------------------------------
\* mutant: order_confirmation without the owner check of line 475
order_confirmation_any(w, b, oid) ==
  /\ req[w].pc = "idle"
  /\ UNCHANGED <<tables, session, req>>
  /\ IF session[b].user_id = NoUser
       THEN last' = Log("order_confirmation", "Unauthenticated")
     ELSE IF ~ \E o \in orders : o.id = oid
       THEN last' = Log("order_confirmation", "NotFound")
     ELSE last' = Log("order_confirmation", "OrderShown")

\* order_confirmation: login_required, get_or_404, owner check
order_confirmation(w, b, oid) ==
  /\ req[w].pc = "idle"
  /\ UNCHANGED <<tables, session, req>>
  /\ IF session[b].user_id = NoUser
       THEN last' = Log("order_confirmation", "Unauthenticated")
     ELSE IF ~ \E o \in orders : o.id = oid
       THEN last' = Log("order_confirmation", "NotFound")
     ELSE LET order == CHOOSE o \in orders : o.id = oid IN
          IF order.user_id # session[b].user_id
            THEN last' = Log("order_confirmation", "Forbidden")
          ELSE last' = Log("order_confirmation", "OrderShown")

\* ---- order and user management ---------------------------------------------
\* the values accepted at app.py:704
OrderStatuses == {"pending", "processing", "shipped", "delivered", "cancelled"}

\* what the status form can post: the five values and two others
PostedStatuses == OrderStatuses \cup {"refunded", ""}

\* mutant: admin_update_order_status without the membership test of line 704
admin_update_order_status_any(w, b, oid, new_status) ==
  /\ req[w].pc = "idle"
  /\ UNCHANGED <<users, products, cartItems, orderItems, session, req>>
  /\ IF admin_required(b) # "ok"
       THEN /\ last' = Log("admin_update_order_status", admin_required(b))
            /\ UNCHANGED orders
     ELSE IF ~ \E o \in orders : o.id = oid
       THEN /\ last' = Log("admin_update_order_status", "NotFound")
            /\ UNCHANGED orders
     ELSE /\ orders' = {IF o.id = oid THEN [o EXCEPT !.status = new_status] ELSE o
                          : o \in orders}
          /\ last' = Log("admin_update_order_status", "StatusUpdated")

\* admin_update_order_status (app.py:696-715)
admin_update_order_status(w, b, oid, new_status) ==
  /\ req[w].pc = "idle"
  /\ UNCHANGED <<users, products, cartItems, orderItems, session, req>>
  /\ IF admin_required(b) # "ok"
       THEN /\ last' = Log("admin_update_order_status", admin_required(b))
            /\ UNCHANGED orders
     ELSE IF ~ \E o \in orders : o.id = oid
       THEN /\ last' = Log("admin_update_order_status", "NotFound")
            /\ UNCHANGED orders
     ELSE IF new_status \in OrderStatuses
       THEN /\ orders' = {IF o.id = oid THEN [o EXCEPT !.status = new_status] ELSE o
                            : o \in orders}
            /\ last' = Log("admin_update_order_status", "StatusUpdated")
     ELSE /\ last' = Log("admin_update_order_status", "ValidationError")
          /\ UNCHANGED orders

\* the position of a toggle request that holds the pending write
\* is_admin = TRUE, or is_admin = FALSE
TogglePc(value) == IF value THEN "toggle_grant" ELSE "toggle_revoke"

\* mutant: admin_toggle_admin without the self check of lines 732-734
admin_toggle_admin_self(w, b, user_id) ==
  /\ req[w].pc = "idle"
  /\ UNCHANGED <<tables, session>>
  /\ IF admin_required(b) # "ok"
       THEN /\ last' = Log("admin_toggle_admin", admin_required(b))
            /\ UNCHANGED req
     ELSE IF user_id \notin DOMAIN users
       THEN /\ last' = Log("admin_toggle_admin", "NotFound")
            /\ UNCHANGED req
     ELSE /\ req' = [req EXCEPT ![w] = [Idle EXCEPT
                       !.pc = TogglePc(~ users[user_id].is_admin),
                       !.browser = b, !.user_id = user_id]]
          /\ last' = Log("admin_toggle_admin", "InProgress")

\* admin_toggle_admin, lines 727-737: the gates, the self check, the load of
\* the target and the assignment user.is_admin = not user.is_admin
admin_toggle_admin(w, b, user_id) ==
  /\ req[w].pc = "idle"
  /\ UNCHANGED <<tables, session>>
  /\ IF admin_required(b) # "ok"
       THEN /\ last' = Log("admin_toggle_admin", admin_required(b))
            /\ UNCHANGED req
     ELSE IF user_id = session[b].user_id
       THEN /\ last' = Log("admin_toggle_admin", "SelfDemotionForbidden")
            /\ UNCHANGED req
     ELSE IF user_id \notin DOMAIN users
       THEN /\ last' = Log("admin_toggle_admin", "NotFound")
            /\ UNCHANGED req
     ELSE /\ req' = [req EXCEPT ![w] = [Idle EXCEPT
                       !.pc = TogglePc(~ users[user_id].is_admin),
                       !.browser = b, !.user_id = user_id]]
          /\ last' = Log("admin_toggle_admin", "InProgress")

\* admin_toggle_admin, lines 739-747: the commit writes the value assigned
admin_toggle_admin_commit(w) ==
  LET r == req[w] IN
  /\ r.pc \in {TogglePc(TRUE), TogglePc(FALSE)}
  /\ req' = [req EXCEPT ![w] = Idle]
  /\ UNCHANGED <<products, cartItems, orders, orderItems, session>>
  /\ users' = [users EXCEPT ![r.user_id].is_admin = (r.pc = TogglePc(TRUE))]
  /\ last' = Log("admin_toggle_admin", "RoleToggled")

\* ---- specification ------------------------------------------------------
\* the store after create_all() and registration: user 1 is the administrator,
\* the catalogue is still to be entered; browser b is logged in as user b,
\* a browser beyond the users is anonymous; no browser has a cart cookie yet
Init ==
  /\ users = [u \in Users |-> [is_admin |-> (u = 1)]]
  /\ products = <<>>
  /\ cartItems = {}
  /\ orders = {}
  /\ orderItems = {}
  /\ session = [b \in Browsers |-> [cart_session |-> NoToken, user_id |-> IF b \in Users THEN b ELSE NoUser]]
  /\ req = [w \in Workers |-> Idle]
  /\ last = Log("none", "none")

\* requests of the cart manager, sent by the browsers B
CartStep(w, B) ==
  \/ \E b \in B, pid \in ProductIds, q \in Quantities : add_to_cart(w, b, pid, q)
  \/ add_to_cart_commit(w)
  \/ \E id \in CartItemIds, q \in Quantities : update_cart_item(w, id, q)
  \/ \E id \in CartItemIds : remove_from_cart(w, id)

\* requests of the order workflow, sent by the browsers B
OrderStep(w, B) ==
  \/ \E b \in B, addr \in Addresses : checkout(w, b, addr)
  \/ checkout_flush(w)
  \/ checkout_commit(w)

\* requests of the product administration, sent by the browsers B, posting
\* prices P and stocks S
AdminStep(w, B, P, S) ==
  \/ \E b \in B, filled \in BOOLEAN, price \in P, stock \in S :
       admin_add_product(w, b, filled, price, stock)
  \/ \E b \in B, pid \in ProductIds, price \in P, stock \in S :
       admin_edit_product(w, b, pid, price, stock)
  \/ \E b \in B, pid \in ProductIds : admin_delete_product(w, b, pid)

\* what the forms post in the specifications below
OnePrice == {Min(Prices)}
InStock == {MaxStock}

\* Spec: one request at a time (worker 1 alone), every route, every browser;
\* products are kept in stock
Next ==
  \/ CartStep(1, Browsers)
  \/ OrderStep(1, Browsers)
  \/ AdminStep(1, Browsers, Prices, InStock)

Spec == Init /\ [][Next]_vars

\* SpecConc: the workers' requests interleave; browser 1 is the admin's,
\* browser 2 a customer's (several tabs share its cookie)
NextConc ==
  \E w \in Workers :
    \/ CartStep(w, {2})
    \/ OrderStep(w, {2})
    \/ AdminStep(w, {1}, Prices, InStock)

SpecConc == Init /\ [][NextConc]_vars

\* SpecCart: one request at a time, the cart manager and the product
\* administration with every stock level
NextCart == CartStep(1, Browsers) \/ AdminStep(1, Browsers, OnePrice, Stocks)

SpecCart == Init /\ [][NextCart]_vars

\* SpecCartConc: SpecCart with the workers' requests interleaved
NextCartConc ==
  \E w \in Workers : CartStep(w, Browsers) \/ AdminStep(w, Browsers, OnePrice, Stocks)

SpecCartConc == Init /\ [][NextCartConc]_vars

\* what the checkout form can post as shipping_address: nothing, a space,
\* an address
PostedAddresses == Addresses \cup {" "}

\* requests of the order workflow, sent by the browsers B, posting the
\* addresses A
PlaceOrderStep(w, B, A) ==
  \/ \E b \in B, addr \in A : checkout(w, b, addr)
  \/ checkout_flush(w)
  \/ checkout_commit(w)

\* SpecAddress: one request at a time; browser 2 shops, browser 1
\* administers, the checkout form posts any of PostedAddresses
NextAddress ==
  \/ CartStep(1, {2})
  \/ PlaceOrderStep(1, Browsers, PostedAddresses)
  \/ AdminStep(1, {1}, OnePrice, InStock)

SpecAddress == Init /\ [][NextAddress]_vars

\* requests of the account routes, sent by the browsers B
AccountStep(w, B) ==
  \/ \E b \in B, u \in Users, password_ok \in BOOLEAN : login(w, b, u, password_ok)
  \/ \E b \in B : logout(w, b)

\* add requests of the cart manager, sent by the browsers B
ShopStep(w, B) ==
  \/ \E b \in B, pid \in ProductIds, q \in Quantities : add_to_cart(w, b, pid, q)
  \/ add_to_cart_commit(w)

\* requests of the order management, sent by the browsers B, posting the
\* statuses S
StatusStep(w, B, S) ==
  \E b \in B, oid \in 1..MaxOrders, new_status \in S :
     admin_update_order_status(w, b, oid, new_status)

\* requests of the user management, sent by the browsers B
RoleStep(w, B) ==
  \/ \E b \in B, user_id \in Users : admin_toggle_admin(w, b, user_id)
  \/ admin_toggle_admin_commit(w)

\* the statuses posted in SpecOffice: one that is accepted, one that is not
OfficeStatuses == {"shipped", "refunded"}

\* SpecOffice: one request at a time; every browser may log out and sends
\* the management requests and checkouts, browser 2 fills a cart
NextOffice ==
  \/ \E b \in Browsers : logout(1, b)
  \/ ShopStep(1, {2})
  \/ OrderStep(1, Browsers)
  \/ AdminStep(1, Browsers, OnePrice, InStock)
  \/ StatusStep(1, Browsers, OfficeStatuses)
  \/ RoleStep(1, Browsers)

SpecOffice == Init /\ [][NextOffice]_vars

\* SpecOrders: one request at a time; every browser logs in and out and
\* reads orders back, browser 2 shops and checks out, browser 1 manages
\* the products
NextOrders ==
  \/ AccountStep(1, Browsers)
  \/ ShopStep(1, {2})
  \/ OrderStep(1, {2})
  \/ \E b \in Browsers, oid \in 1..(MaxOrders + 1) : order_confirmation(1, b, oid)
  \/ AdminStep(1, {1}, OnePrice, InStock)

SpecOrders == Init /\ [][NextOrders]_vars

\* SpecStatus: one request at a time; browser 2 shops and checks out, the
\* products are managed from browser 1 and every browser posts status updates
NextStatus ==
  \/ ShopStep(1, {2})
  \/ OrderStep(1, {2})
  \/ AdminStep(1, {1}, OnePrice, InStock)
  \/ StatusStep(1, Browsers, PostedStatuses)

SpecStatus == Init /\ [][NextStatus]_vars

\* SpecRoles: one request at a time; every browser logs in and out and
\* posts role toggles
NextRoles == AccountStep(1, Browsers) \/ RoleStep(1, Browsers)

SpecRoles == Init /\ [][NextRoles]_vars

\* SpecRolesConc: SpecRoles with the workers' requests interleaved
NextRolesConc == \E w \in Workers : AccountStep(w, Browsers) \/ RoleStep(w, Browsers)

SpecRolesConc == Init /\ [][NextRolesConc]_vars

\* SpecSession: one request at a time; every browser logs in and out, looks
\* at its cart and adds to it, and sends product management requests
NextSession ==
  \/ AccountStep(1, Browsers)
  \/ \E b \in Browsers : view_cart(1, b)
  \/ ShopStep(1, Browsers)
  \/ AdminStep(1, Browsers, OnePrice, InStock)

SpecSession == Init /\ [][NextSession]_vars

\* ---- properties ---------------------------------------------------------
\* the worker whose checkout commits in this step
Committing(w) == req[w].pc = "checkout_flushed" /\ req'[w].pc = "idle"

\* C1: placing an order is atomic: every step of a checkout request other
\* than its successful commit (the load, the flush of the Order and its
\* OrderItems into the transaction, the rollback) leaves the orders, the
\* order items and the cart items as they were.
C1_CheckoutAtomic ==
  [][(last'.op = "checkout" /\ last'.outcome # "OrderPlaced")
       => UNCHANGED <<orders, orderItems, cartItems>>]_vars

\* a checkout failed after its Order and OrderItems were flushed, and the
\* cart still holds rows
C1_Witness ==
  /\ last = Log("checkout", "RolledBack")
  /\ orders = {} /\ orderItems = {}
  /\ cartItems # {}

\* C2: immediately after placement the new order's total_amount equals the
\* sum of price x quantity over its order items, also when a product's
\* price was edited while the checkout was in progress.
C2_TotalIsSumOfItems ==
  [][last'.outcome = "OrderPlaced"
       => \A o \in orders' \ orders : o.total_amount = calculate_total(o, orderItems')]_vars

\* an order was just placed whose item price differs from the product's
\* price: the product was edited between the checkout's read and its commit
C2_Witness ==
  /\ last = Log("checkout", "OrderPlaced")
  /\ \E i \in orderItems :
        /\ i.product_id \in DOMAIN products
        /\ products[i.product_id].price # i.price
  /\ \A o \in orders : o.total_amount = calculate_total(o, orderItems)

\* C3: a successful checkout creates exactly one order, owned by the
\* requesting user and pending, exactly one order item per cart item of the
\* token with that item's product and quantity and the product's price, and
\* leaves no cart item for the token.
C3_PlaceOrder ==
  [][last'.outcome = "OrderPlaced" =>
       \E w \in Workers :
         /\ Committing(w)
         /\ LET src == CartOf(req[w].token)
                newItems == orderItems' \ orderItems
            IN /\ src # {}
               /\ orderItems \subseteq orderItems'
               /\ orders \subseteq orders'
               /\ \E o \in orders' \ orders :
                    /\ orders' = orders \cup {o}
                    /\ o.user_id = session[req[w].browser].user_id
                    /\ o.status = "pending"
                    /\ \A i \in newItems : i.order_id = o.id
               /\ Cardinality(newItems) = Cardinality(src)
               /\ \A c \in src :
                    Cardinality({i \in newItems :
                       /\ i.product_id = c.product_id
                       /\ i.quantity = c.quantity
                       /\ i.price = products[c.product_id].price}) = 1
               /\ {c \in cartItems' : c.session_id = req[w].token} = {}]_vars

\* the scenario of two products, A with quantity 2 and B with quantity 1:
\* two order items, the total of the three units, an empty cart
C3_Witness ==
  /\ last = Log("checkout", "OrderPlaced")
  /\ \E o \in orders :
       /\ Cardinality({i \in orderItems : i.order_id = o.id}) = 2
       /\ \E i, k \in orderItems :
            /\ i.order_id = o.id /\ k.order_id = o.id
            /\ i.product_id # k.product_id
            /\ i.quantity = 2 /\ k.quantity = 1
            /\ o.total_amount = 2 * i.price + k.price
       /\ \E u \in Users : o.user_id = u
  /\ \E b \in Browsers : session[b].cart_session # NoToken /\ CartOf(session[b].cart_session) = {}

\* C4: an admin product edit leaves every order and every order item as it
\* was: an order item's price stays the one taken at purchase.
C4_PriceFrozen ==
  [][last'.op = "admin_edit_product" => UNCHANGED <<orders, orderItems>>]_vars

\* a product was just edited and an order item keeps another price than
\* the product now has
C4_Witness ==
  /\ last = Log("admin_edit_product", "ProductUpdated")
  /\ \E i \in orderItems :
        /\ i.product_id \in DOMAIN products
        /\ products[i.product_id].price # i.price
  /\ \A o \in orders : o.total_amount = calculate_total(o, orderItems)

\* C5 (as claimed): deleting a product leaves every order item of every
\* placed order in place.
C5_ItemsSurviveDelete ==
  [][last'.op = "admin_delete_product" => orderItems \subseteq orderItems']_vars

\* C6 (as claimed): after a successful add or update the cart item it wrote
\* holds a quantity no greater than its product's stock.
C6_QuantityWithinStock ==
  [][last'.outcome \in {"Added", "Updated"} =>
       \A c \in cartItems' \ cartItems :
          /\ c.product_id \in DOMAIN products
          /\ c.quantity <= products[c.product_id].stock]_vars

\* the effect of the commit of an add request that found no row
AddCreates(w) ==
  (req[w].pc = "add_commit" /\ req'[w].pc = "idle" /\ req[w].cart_item = NoRow)
    => /\ last'.outcome = "Added"
       /\ cartItems' = cartItems \cup
            {[id |-> NewId(cartItems), session_id |-> req[w].token,
              product_id |-> req[w].product_id, quantity |-> req[w].quantity]}

\* C7 (amended): for a product with stock s and a token with an empty cart,
\* addItem with max(q, 1) <= s succeeds and creates a cart item of quantity
\* max(q, 1); with max(q, 1) > s it fails with InsufficientStock and the cart
\* is unchanged.
C7_AddToEmptyCart ==
  [][\A w \in Workers :
       /\ \A b \in Browsers, pid \in ProductIds, q \in Quantities :
            (/\ last'.op = "add_to_cart"
             /\ add_to_cart(w, b, pid, q)
             /\ pid \in DOMAIN products
             /\ CartOf(session[b].cart_session) = {})
            => IF Max({q, 1}) <= products[pid].stock
                 THEN /\ last'.outcome = "InProgress"
                      /\ req'[w].quantity = Max({q, 1})
                      /\ req'[w].product_id = pid
                      /\ req'[w].cart_item = NoRow
                 ELSE /\ last'.outcome = "InsufficientStock"
                      /\ cartItems' = cartItems
                      /\ req' = req
       /\ AddCreates(w)]_vars

\* an add to an empty cart has just created the cart's only row
C7_Witness ==
  /\ last = Log("add_to_cart", "Added")
  /\ \E b \in Browsers :
       /\ Cardinality(CartOf(session[b].cart_session)) = 1
       /\ \A c \in CartOf(session[b].cart_session) :
            c.quantity = 1 /\ products[c.product_id].stock >= 1

\* C7 (as claimed): the same with the posted q, not max(q, 1), compared with
\* the stock.
C7_AsClaimed ==
  [][\A w \in Workers :
       /\ \A b \in Browsers, pid \in ProductIds, q \in Quantities :
            (/\ last'.op = "add_to_cart"
             /\ add_to_cart(w, b, pid, q)
             /\ pid \in DOMAIN products
             /\ CartOf(session[b].cart_session) = {})
            => IF q <= products[pid].stock
                 THEN /\ last'.outcome = "InProgress"
                      /\ req'[w].quantity = Max({q, 1})
                      /\ req'[w].product_id = pid
                      /\ req'[w].cart_item = NoRow
                 ELSE /\ last'.outcome = "InsufficientStock"
                      /\ cartItems' = cartItems
                      /\ req' = req
       /\ AddCreates(w)]_vars

\* C8 (amended): updateItem whose quantity, clamped to a minimum of 1,
\* exceeds the product's stock reports InsufficientStock and leaves every
\* cart item unchanged; otherwise it overwrites the item's quantity with the
\* clamped value and changes no other cart item.
C8_UpdateItem ==
  [][\A w \in Workers, id \in CartItemIds, q \in Quantities :
       (/\ last'.op = "update_cart_item"
        /\ update_cart_item(w, id, q)
        /\ \E c \in cartItems : c.id = id /\ c.product_id \in DOMAIN products)
       => LET item == CHOOSE c \in cartItems : c.id = id IN
          IF Max({q, 1}) > products[item.product_id].stock
            THEN /\ last'.outcome = "InsufficientStock"
                 /\ cartItems' = cartItems
            ELSE /\ last'.outcome = "Updated"
                 /\ cartItems' = (cartItems \ {item})
                                   \cup {[item EXCEPT !.quantity = Max({q, 1})]}]_vars

\* an update was just refused for lack of stock and the row keeps a
\* quantity the stock no longer covers
C8_Witness ==
  /\ last = Log("update_cart_item", "InsufficientStock")
  /\ \E c \in cartItems :
       /\ c.product_id \in DOMAIN products
       /\ c.quantity > products[c.product_id].stock

\* C8 (as claimed): the same with the posted quantity, not the clamped one,
\* compared with the stock.
C8_AsClaimed ==
  [][\A w \in Workers, id \in CartItemIds, q \in Quantities :
       (/\ last'.op = "update_cart_item"
        /\ update_cart_item(w, id, q)
        /\ \E c \in cartItems : c.id = id /\ c.product_id \in DOMAIN products)
       => LET item == CHOOSE c \in cartItems : c.id = id IN
          IF q > products[item.product_id].stock
            THEN /\ last'.outcome = "InsufficientStock"
                 /\ cartItems' = cartItems
            ELSE /\ last'.outcome = "Updated"
                 /\ cartItems' = (cartItems \ {item})
                                   \cup {[item EXCEPT !.quantity = Max({q, 1})]}]_vars

\* C9 (as claimed): at most one cart item per (session token, product).
C9_UniqueTokenProduct ==
  \A c, d \in cartItems :
     (c.session_id = d.session_id /\ c.product_id = d.product_id) => c = d

\* C10: a checkout by a logged-in browser whose token has no cart item
\* answers EmptyCart and changes no order, order item or cart item.
C10_EmptyCart ==
  [][\A w \in Workers, b \in Browsers, addr \in Addresses :
       (/\ last'.op = "checkout"
        /\ checkout(w, b, addr)
        /\ session[b].user_id # NoUser
        /\ CartOf(session[b].cart_session) = {})
       => /\ last' = Log("checkout", "EmptyCart")
          /\ req' = req
          /\ UNCHANGED <<orders, orderItems, cartItems>>]_vars

\* a checkout was just refused for an empty cart while another token's cart
\* holds rows
C10_Witness ==
  /\ last = Log("checkout", "EmptyCart")
  /\ cartItems # {}
  /\ orders = {} /\ orderItems = {}

\* an address without a visible character
IsBlank(addr) == addr \in {"", " "}

\* C11 (as claimed): a checkout of a non-empty cart by a logged-in browser
\* with a blank shipping address answers ValidationError and changes no
\* order, order item or cart item; and no order in the store, at the start
\* or after any step, has a blank shipping address.
C11_BlankAddressRejected ==
  /\ [][\A w \in Workers, b \in Browsers, addr \in PostedAddresses :
          (/\ last'.op = "checkout"
           /\ checkout(w, b, addr)
           /\ session[b].user_id # NoUser
           /\ CartOf(session[b].cart_session) # {}
           /\ IsBlank(addr))
          => /\ last' = Log("checkout", "ValidationError")
             /\ req' = req
             /\ UNCHANGED <<orders, orderItems, cartItems>>]_vars
  /\ \A o \in orders : ~ IsBlank(o.shipping_address)
  /\ [][\A o \in orders' : ~ IsBlank(o.shipping_address)]_vars

\* C12: reading an order back by its id shows it when its owner is the
\* logged-in requester and answers Forbidden when the owner is another user,
\* whoever the two users are (an administrator included); nothing is changed.
C12_OwnerOnly ==
  [][\A w \in Workers, b \in Browsers, oid \in 1..(MaxOrders + 1) :
       (/\ last'.op = "order_confirmation"
        /\ order_confirmation(w, b, oid)
        /\ session[b].user_id # NoUser
        /\ \E o \in orders : o.id = oid)
       => /\ \A o \in orders :
               o.id = oid =>
                 last'.outcome = (IF o.user_id = session[b].user_id
                                    THEN "OrderShown" ELSE "Forbidden")
          /\ UNCHANGED <<tables, session, req>>]_vars

\* a logged-in user who is not the owner of the only order was just refused
\* it, while the owner is logged in at another browser
C12_Witness ==
  /\ last = Log("order_confirmation", "Forbidden")
  /\ \E o \in orders, b, c \in Browsers :
       /\ session[b].user_id \notin {NoUser, o.user_id}
       /\ session[c].user_id = o.user_id

\* the five values of the status enumeration
C14_Enumerated == {"pending", "processing", "shipped", "delivered", "cancelled"}

\* C14: every order's status, at the start and after every step, is one of
\* the five enumerated values: an order is created pending, an admin's status update with one of the five values
\* sets the status of that order alone, and an update with any other value
\* answers ValidationError and changes no order.
C14_StatusEnum ==
  /\ \A o \in orders : o.status \in C14_Enumerated
  /\ [][\A o \in orders' :
          /\ o.status \in C14_Enumerated
          /\ (~ \E p \in orders : p.id = o.id) => o.status = "pending"]_vars
  /\ [][\A w \in Workers, b \in Browsers, oid \in 1..MaxOrders, s \in PostedStatuses :
          (/\ last'.op = "admin_update_order_status"
           /\ session[b].user_id # NoUser
           /\ users[session[b].user_id].is_admin
           /\ \E o \in orders : o.id = oid
           /\ admin_update_order_status(w, b, oid, s))
          => IF s \in C14_Enumerated
               THEN /\ last'.outcome = "StatusUpdated"
                    /\ orders' = {IF o.id = oid THEN [o EXCEPT !.status = s] ELSE o
                                    : o \in orders}
               ELSE /\ last'.outcome = "ValidationError"
                    /\ orders' = orders]_vars

\* an update with a value outside the enumeration was just refused and the
\* order keeps the status an earlier update gave it
C14_Witness ==
  /\ last = Log("admin_update_order_status", "ValidationError")
  /\ \E o \in orders : o.status = "shipped"

\* the worker whose role toggle commits in this step
Toggling(w) == req[w].pc \in {"toggle_grant", "toggle_revoke"} /\ req'[w].pc = "idle"

\* C13: a role toggle by an admin on the admin's own account answers
\* SelfDemotionForbidden and changes no user; a toggle on another existing
\* user is accepted, and its commit flips that user's is_admin and no other
\* user's.
C13_NoSelfToggle ==
  [][\A w \in Workers :
       /\ \A b \in Browsers, uid \in Users :
            (/\ last'.op = "admin_toggle_admin"
             /\ session[b].user_id # NoUser
             /\ users[session[b].user_id].is_admin
             /\ admin_toggle_admin(w, b, uid))
            => /\ users' = users
               /\ IF uid = session[b].user_id
                    THEN last'.outcome = "SelfDemotionForbidden" /\ req' = req
                    ELSE /\ last'.outcome = "InProgress"
                         /\ req'[w].pc # "idle"
                         /\ req'[w].user_id = uid
       /\ Toggling(w)
            => /\ last'.outcome = "RoleToggled"
               /\ users' = [users EXCEPT ![req[w].user_id].is_admin =
                                           ~ users[req[w].user_id].is_admin]]_vars

\* an admin who was granted the role by another admin was just refused the
\* toggle of the own account
C13_Witness ==
  /\ last = Log("admin_toggle_admin", "SelfDemotionForbidden")
  /\ \E b \in Browsers : session[b].user_id = 2 /\ users[2].is_admin
  /\ \A w \in Workers : req[w].pc = "idle"

\* C17 (as claimed): at least one user is an admin, in every state reached
\* by role toggles in any order or interleaving.
C17_AdminRemains == \E u \in DOMAIN users : users[u].is_admin

\* the answer the gates owe to the principal of browser b, "ok" for an admin
C15_Gate(b) ==
  IF session[b].user_id = NoUser THEN "Unauthenticated"
  ELSE IF users[session[b].user_id].is_admin THEN "ok" ELSE "Forbidden"

\* the request was refused with the gate's answer and nothing was changed
C15_Refused(b) ==
  /\ last'.outcome = C15_Gate(b)
  /\ UNCHANGED <<tables, session, req>>

\* C15: a product create, edit or delete, an order status update or a role
\* toggle requested by a principal that is not logged in, or is logged in
\* and not an admin, answers Unauthenticated, or Forbidden, and changes
\* nothing (products, orders and users included); a checkout by a principal
\* that is not logged in answers Unauthenticated and changes nothing.
C15_AdminGates ==
  [][\A w \in Workers, b \in Browsers :
       /\ (last'.op = "admin_add_product" /\ C15_Gate(b) # "ok")
          => \A filled \in BOOLEAN, price \in OnePrice, stock \in InStock :
                admin_add_product(w, b, filled, price, stock) => C15_Refused(b)
       /\ (last'.op = "admin_edit_product" /\ C15_Gate(b) # "ok")
          => \A pid \in ProductIds, price \in OnePrice, stock \in InStock :
                admin_edit_product(w, b, pid, price, stock) => C15_Refused(b)
       /\ (last'.op = "admin_delete_product" /\ C15_Gate(b) # "ok")
          => \A pid \in ProductIds :
                admin_delete_product(w, b, pid) => C15_Refused(b)
       /\ (last'.op = "admin_update_order_status" /\ C15_Gate(b) # "ok")
          => \A oid \in 1..MaxOrders, s \in OfficeStatuses :
                admin_update_order_status(w, b, oid, s) => C15_Refused(b)
       /\ (last'.op = "admin_toggle_admin" /\ C15_Gate(b) # "ok")
          => \A uid \in Users :
                admin_toggle_admin(w, b, uid) => C15_Refused(b)
       /\ (last'.op = "checkout" /\ session[b].user_id = NoUser)
          => \A addr \in Addresses : checkout(w, b, addr) => C15_Refused(b)]_vars

\* a product delete was just refused as Forbidden while the store holds a
\* product and an order and the first admin has lost the role
C15_Witness ==
  /\ last = Log("admin_delete_product", "Forbidden")
  /\ DOMAIN products # {}
  /\ orders # {}
  /\ ~ users[1].is_admin

\* C16: a browser's cart token, once stored, is never changed or cleared by
\* any request; the first call of get_session_id stores a token that no
\* other browser holds and no cart row carries; a login or a logout changes
\* no browser's token and no cart row, so each browser sees the same cart
\* before and after.
C16_TokenStable ==
  [][\A b \in Browsers :
       /\ session[b].cart_session # NoToken
            => session'[b].cart_session = session[b].cart_session
       /\ (session[b].cart_session = NoToken /\ session'[b].cart_session # NoToken)
            => /\ \A c \in Browsers \ {b} :
                    session[c].cart_session # session'[b].cart_session
               /\ CartOf(session'[b].cart_session) = {}
       /\ (\E w \in Workers : view_cart(w, b)) => session'[b].cart_session # NoToken
       /\ last'.op \in {"login", "logout"}
            => /\ session'[b].cart_session = session[b].cart_session
               /\ cartItems' = cartItems]_vars

\* a browser that has just logged out still holds its token, and the
\* token's cart still holds rows
C16_Witness ==
  /\ last = Log("logout", "LoggedOut")
  /\ \E b \in Browsers :
       /\ session[b].user_id = NoUser
       /\ session[b].cart_session # NoToken
       /\ CartOf(session[b].cart_session) # {}

\* C18 (as claimed): an update or a remove request sent by a browser that
\* holds the token T changes or deletes no cart item of another token.  The
\* two handlers take the cart item's id from the URL and never read the
\* cookie, so a step of theirs is a request any browser may have sent.
C18_CartIsolation ==
  [][\A b \in Browsers :
       (/\ last'.op \in {"update_cart_item", "remove_from_cart"}
        /\ session[b].cart_session # NoToken
        /\ \E w \in Workers, id \in CartItemIds :
              \/ \E q \in Quantities : update_cart_item(w, id, q)
              \/ remove_from_cart(w, id))
       => \A c \in cartItems :
             c.session_id # session[b].cart_session => c \in cartItems']_vars
====
